---- MODULE Spec2Model ----
(***************************************************************************)
(* The sample generators of src/pbrt/samplers.h as state machines: the     *)
(* per-instance cursor state of every generator variant, the shared        *)
(* precomputed tables, and one action per public operation.                *)
(*                                                                         *)
(* Values in [0,1) are exact rationals <<num, den>>; where the source's    *)
(* 32-bit Float rounding decides a result (StratifiedSampler) the value is *)
(* computed in units of 2^-24 with round-to-nearest-even.                  *)
(***************************************************************************)
EXTENDS Integers, Naturals, Sequences, FiniteSets, TLC

VARIABLES
    kind,               \* which generator variant the instances are
    conf,               \* constructor arguments and global options
    digitPermutations,  \* HaltonSampler's shared table (one per Clone set)
    pixelSamples,       \* PMJ02BNSampler's shared table (one per Clone set)
    smp,                \* clone -> the instance's own mutable members
    log,                \* clone -> what the caller did and saw since StartPixelSample
    solo,               \* clone -> the instance that worker would hold running alone
    replay,             \* clone -> newly constructed instances given the same calls
    seen                \* StratifiedSampler: sample index -> cell of the first Get2D

vars == <<kind, conf, digitPermutations, pixelSamples, smp, log, solo, replay, seen>>

-----------------------------------------------------------------------------
(* Bounds of the model *)

\* Get1D/Get2D calls recorded after one StartPixelSample
MaxCalls == 2
\* digits a radical inverse keeps
NDigits == 3
\* operations other than Get1D/Get2D on one Metropolis instance
MaxSteps == 3
\* primary samples a Metropolis instance may grow to
MaxX == 2
MaxDraws == 6

(* Program constants *)

\* HaltonSampler::MaxHaltonResolution
MaxHaltonResolution == 128
\* the value of INT_MAX for the int members (dimension, sampleIndex, ...)
IntMax == 2147483647
\* 2^24: one unit in the last place of a Float below 1 is 2^-24
FloatOne == 16777216

-----------------------------------------------------------------------------
(* Integer helpers *)

RECURSIVE Pow(_, _)
Pow(b, e) == IF e = 0 THEN 1 ELSE b * Pow(b, e - 1)

Min(a, b) == IF a <= b THEN a ELSE b
Max(a, b) == IF a >= b THEN a ELSE b

\* pbrt::Mod: the remainder made non-negative
Mod(a, b) ==
    LET q == IF a >= 0 THEN a \div b ELSE -((-a) \div b)
        r == a - q * b
    IN  IF r < 0 THEN r + b ELSE r

\* the C++ % operator on int: the remainder has the sign of the dividend
TruncRem(a, b) == IF a >= 0 THEN a % b ELSE -((-a) % b)

\* a * b in 32-bit two's complement, for 0 <= a < 2^31 and 0 <= b < 2^16,
\* computed on 16-bit halves so that no intermediate leaves the 32-bit range
WrapMul32(a, b) ==
    LET ah == a \div 65536
        al == a % 65536
        lo == al * b
        hi == (ah * b + lo \div 65536) % 65536
        l16 == lo % 65536
    IN  IF hi >= 32768 THEN (hi - 65536) * 65536 + l16 ELSE hi * 65536 + l16

\* whether a * b (a, b >= 0, b < 2^16) exceeds INT_MAX
MulOverflows(a, b) == b > 0 /\ a > IntMax \div b

-----------------------------------------------------------------------------
(* Rationals <<num, den>> with den > 0 *)

Rat(n, d) == <<n, d>>
Num(v) == v[1]
Den(v) == v[2]
InUnit(v) == 0 <= Num(v) /\ Num(v) < Den(v)
RatEq(v, w) == Num(v) * Den(w) = Num(w) * Den(v)
\* OneMinusEpsilon, the largest Float below 1
OneMinusEpsilon == Rat(FloatOne - 1, FloatOne)
\* std::min(v, OneMinusEpsilon), for v < 2
ClampBelowOne(v) == IF Num(v) >= Den(v) THEN OneMinusEpsilon ELSE v

-----------------------------------------------------------------------------
(* Low-discrepancy primitives (pbrt/util/lowdiscrepancy.h, primes.h) *)

\* the prime bases, one per dimension
Primes == <<2, 3, 5, 7, 11, 13, 17, 19>>
\* number of dimensions the prime table (and the digit permutations) cover
PrimeTableSize == 6
\* number of dimensions the Sobol' direction numbers cover
NSobolDimensions == 6

\* the digits of a, least significant first, reversed into an integer
RECURSIVE ReverseDigits(_, _, _)
ReverseDigits(a, base, acc) ==
    IF a = 0 THEN acc
    ELSE ReverseDigits(a \div base, base, <<acc[1] * base + (a % base), acc[2] * base>>)

\* RadicalInverse(baseIndex, a): a's digits in base Primes[baseIndex] mirrored
\* about the radix point, clamped below 1
RadicalInverse(baseIndex, a) ==
    LET base == Primes[baseIndex + 1]
        r == ReverseDigits(a, base, <<0, 1>>)
    IN  ClampBelowOne(Rat(r[1], r[2]))

\* InverseRadicalInverse(inverse, base, nDigits)
RECURSIVE InverseRadicalInverse(_, _, _)
InverseRadicalInverse(inverse, base, nDigits) ==
    IF nDigits = 0 THEN 0
    ELSE (inverse % base) * Pow(base, nDigits - 1)
         + InverseRadicalInverse(inverse \div base, base, nDigits - 1)

\* The 64-bit hash key  (a << 48) ^ (b << 32) ^ (c << 16) ^ d  of four fields
\* below 2^16 each: the fields occupy disjoint bits, so the key is the tuple
HashKey(a, b, c, d) == <<a, b, c, d>>
\* MixBits, scaled to 8 bits: a hash of the whole key
HashMod == 256
MixBits(key) ==
    (key[1] * 37 + key[2] * 101 + key[3] * 59 + key[4] * 83 + 11
       + (key[1] + key[3]) * (key[2] + key[4] + 1) * 7) % HashMod
\* hash >> n for the scaled hash (8 bits standing for 64: n / 8 positions)
HashShift(hash, n) == hash \div Pow(2, n \div 8)
\* conversion of a hash to uint32_t, scaled (4 bits standing for 32)
Hash32(hash) == hash % 16

\* ComputeRadicalInversePermutations(seed): for every dimension and digit
\* position a permutation of the digits 0 .. base-1
ComputeRadicalInversePermutations(seed) ==
    [dim \in 0 .. PrimeTableSize - 1 |->
        [digitIndex \in 0 .. NDigits - 1 |->
            LET base == Primes[dim + 1]
                rot == MixBits(HashKey(seed, dim, digitIndex, 1))
            IN  [digit \in 0 .. base - 1 |-> (digit + rot) % base]]]

\* ScrambledRadicalInverse(baseIndex, a, perm): every digit position, leading
\* zeros included, is permuted before it is mirrored
RECURSIVE ScrambledDigits(_, _, _, _, _)
ScrambledDigits(a, base, perm, digitIndex, acc) ==
    IF digitIndex = NDigits THEN acc
    ELSE ScrambledDigits(a \div base, base, perm, digitIndex + 1,
                         acc * base + perm[digitIndex][a % base])

ScrambledRadicalInverse(baseIndex, a, perm) ==
    LET base == Primes[baseIndex + 1]
    IN  ClampBelowOne(Rat(ScrambledDigits(a, base, perm, 0, 0), Pow(base, NDigits)))

-----------------------------------------------------------------------------
(* The result of one Get call: the instance it leaves, the values it returns *)
(* (none when the call does not return) and the table dimensions it indexed  *)

Outcome(st, out, used) == [st |-> st, out |-> out, used |-> used]

-----------------------------------------------------------------------------
(* HaltonSampler *)

\* extendedGCD(a, b, &x, &y), returning <<x, y>>
RECURSIVE extendedGCD(_, _)
extendedGCD(a, b) ==
    IF b = 0 THEN <<1, 0>>
    ELSE LET d == a \div b
             r == extendedGCD(b, a % b)
             xp == r[1]
             yp == r[2]
         IN  <<yp, xp - d * yp>>

multiplicativeInverse(a, n) == Mod(extendedGCD(a, n)[1], n)

\* the constructor's scale for one axis: the smallest power of base that is
\* >= min(resolution, MaxHaltonResolution), with its exponent
RECURSIVE HaltonScale(_, _, _, _)
HaltonScale(res, base, scale, exp) ==
    IF scale < Min(res, MaxHaltonResolution)
    THEN HaltonScale(res, base, scale * base, exp + 1)
    ELSE <<scale, exp>>

\* HaltonSampler::HaltonSampler: the members that stay fixed afterwards
HaltonConstruct(samplesPerPixel, fullResolution, seed) ==
    LET sx == HaltonScale(fullResolution[1], 2, 1, 0)
        sy == HaltonScale(fullResolution[2], 3, 1, 0)
    IN  [samplesPerPixel |-> samplesPerPixel,
         seed |-> seed,
         baseScales |-> <<sx[1], sy[1]>>,
         baseExponents |-> <<sx[2], sy[2]>>,
         multInverse |-> <<multiplicativeInverse(sy[1], sx[1]),
                           multiplicativeInverse(sx[1], sy[1])>>]

\* the Halton index of the first sample of pixel p (lines 48-61)
HaltonIndex0(cf, p) ==
    LET sampleStride == cf.baseScales[1] * cf.baseScales[2]
        pm == <<Mod(p[1], MaxHaltonResolution), Mod(p[2], MaxHaltonResolution)>>
        dimOffset(i) ==
            IF i = 1 THEN InverseRadicalInverse(pm[1], 2, cf.baseExponents[1])
            ELSE InverseRadicalInverse(pm[2], 3, cf.baseExponents[2])
        term(i) == dimOffset(i) * (sampleStride \div cf.baseScales[i]) * cf.multInverse[i]
    IN  IF sampleStride > 1 THEN (term(1) + term(2)) % sampleStride ELSE 0

\* sampleIndex * sampleStride, an int product (line 63): the exact product
\* when it fits an int. On signed overflow the behaviour is undefined: the
\* build either wraps the product to 32 bits (ub) or traps (~ub, no value)
HaltonSampleOffset(sampleIndex, sampleStride, ub) ==
    IF MulOverflows(sampleIndex, sampleStride)
    THEN IF ub THEN <<WrapMul32(sampleIndex, sampleStride)>> ELSE <<>>
    ELSE <<sampleIndex * sampleStride>>

\* HaltonSampler::StartPixelSample (lines 47-65)
HaltonStartPixelSample(cf, s, p, sampleIndex, dim, ub) ==
    LET sampleStride == cf.baseScales[1] * cf.baseScales[2]
        off == HaltonSampleOffset(sampleIndex, sampleStride, ub)
    IN  IF off = <<>>
        THEN [s EXCEPT !.aborted = TRUE]
        ELSE [s EXCEPT !.haltonIndex = HaltonIndex0(cf, p) + off[1], !.dimension = dim]

\* a Get1D that moves the cursor two dimensions on: the start-dimension
\* consistency of C21 rests on the advance by one
HaltonGet1DSkipping(cf, perms, s) ==
    LET dim == IF s.dimension >= PrimeTableSize THEN 2 ELSE s.dimension
    IN  Outcome([s EXCEPT !.dimension = dim + 2],
                <<ScrambledRadicalInverse(dim, s.haltonIndex, perms[dim])>>,
                <<dim>>)

\* HaltonSampler::Get1D (lines 68-73)
HaltonGet1D(cf, perms, s) ==
    LET dim == IF s.dimension >= PrimeTableSize THEN 2 ELSE s.dimension
    IN  Outcome([s EXCEPT !.dimension = dim + 1],
                <<ScrambledRadicalInverse(dim, s.haltonIndex, perms[dim])>>,
                <<dim>>)

\* the test  dimension + 1 >= bound  of Get2D. At dimension = INT_MAX the sum
\* overflows int and the behaviour is undefined: the build either folds the
\* test to  dimension >= bound - 1  (ub) or wraps the sum to INT_MIN (~ub)
WrapTest2D(dimension, bound, ub) ==
    IF dimension = IntMax THEN ub ELSE dimension + 1 >= bound

\* a Get2D whose non-pixel branch advances the cursor by one: the equivalence
\* of C15 with two Get1D calls rests on the advance by two
HaltonGet2DShortAdvance(cf, perms, s, ub) ==
    IF s.dimension = 0
    THEN Outcome([s EXCEPT !.dimension = 2],
                 <<RadicalInverse(0, s.haltonIndex \div Pow(2, cf.baseExponents[1])),
                   RadicalInverse(1, s.haltonIndex \div cf.baseScales[2])>>,
                 <<0, 1>>)
    ELSE LET wrap == WrapTest2D(s.dimension, PrimeTableSize, ub)
             dim == IF wrap THEN 2 ELSE s.dimension
         IN  IF dim = IntMax
             THEN Outcome([s EXCEPT !.aborted = TRUE], <<>>, <<IntMax>>)
             ELSE Outcome([s EXCEPT !.dimension = dim + 1],
                          <<ScrambledRadicalInverse(dim, s.haltonIndex, perms[dim]),
                            ScrambledRadicalInverse(dim + 1, s.haltonIndex, perms[dim + 1])>>,
                          <<dim, dim + 1>>)

\* HaltonSampler::Get2D (lines 76-93)
HaltonGet2D(cf, perms, s, ub) ==
    IF s.dimension = 0
    THEN Outcome([s EXCEPT !.dimension = 2],
                 <<RadicalInverse(0, s.haltonIndex \div Pow(2, cf.baseExponents[1])),
                   RadicalInverse(1, s.haltonIndex \div cf.baseScales[2])>>,
                 <<0, 1>>)
    ELSE LET wrap == WrapTest2D(s.dimension, PrimeTableSize, ub)
             dim == IF wrap THEN 2 ELSE s.dimension
         IN  IF dim = IntMax
             THEN \* digitPermutations[INT_MAX] is read: outside the table
                  Outcome([s EXCEPT !.aborted = TRUE], <<>>, <<IntMax>>)
             ELSE Outcome([s EXCEPT !.dimension = dim + 2],
                          <<ScrambledRadicalInverse(dim, s.haltonIndex, perms[dim]),
                            ScrambledRadicalInverse(dim + 1, s.haltonIndex, perms[dim + 1])>>,
                          <<dim, dim + 1>>)

-----------------------------------------------------------------------------
(* Float arithmetic in units of 2^-24 (a Float has 24 significant bits) *)

\* how many low bits n >= 0 (in units of 2^-24) loses when stored in a Float
RECURSIVE ExtraBits(_, _)
ExtraBits(n, s) == IF n < FloatOne * Pow(2, s) THEN s ELSE ExtraBits(n, s + 1)

\* n units rounded to the nearest Float, ties to even; the result in units
RoundToFloat(n) ==
    LET s == ExtraBits(n, 0)
        p == Pow(2, s)
        q == n \div p
        r == n % p
    IN  IF s = 0 THEN n
        ELSE IF 2 * r > p \/ (2 * r = p /\ q % 2 = 1) THEN (q + 1) * p ELSE q * p

\* the Float  i + delta  for an int i >= 0 and a Float delta of d units
FloatAddInt(i, d) == RoundToFloat(i * FloatOne + d)

RECURSIVE ScaleUp(_, _, _)
ScaleUp(x, n, t) == IF x * Pow(2, t) >= n * (FloatOne \div 2) THEN t ELSE ScaleUp(x, n, t + 1)
RECURSIVE ScaleDown(_, _, _)
ScaleDown(x, n, j) == IF x < n * FloatOne * Pow(2, j) THEN j ELSE ScaleDown(x, n, j + 1)

\* the Float  x / n  for a Float x of x units and an int n >= 1, as a rational
FloatDivInt(x, n) ==
    IF x = 0 THEN Rat(0, FloatOne)
    ELSE IF x < n * FloatOne
    THEN LET t == ScaleUp(x, n, 0)
             num == x * Pow(2, t)
             m == num \div n
             r == num % n
             mr == IF 2 * r > n \/ (2 * r = n /\ m % 2 = 1) THEN m + 1 ELSE m
         IN  Rat(mr, FloatOne * Pow(2, t))
    ELSE LET j == ScaleDown(x, n, 0)
             dv == n * Pow(2, j)
             m == x \div dv
             r == x % dv
             mr == IF 2 * r > dv \/ (2 * r = dv /\ m % 2 = 1) THEN m + 1 ELSE m
         IN  Rat(mr * Pow(2, j), FloatOne)

-----------------------------------------------------------------------------
(* RNG (pbrt/util/rng.h): a stream selected by SetSequence and a position *)

\* the values Uniform<Float>() is seen to return, in units of 2^-24:
\* 0, 1/4, 1/2, 3/4 and OneMinusEpsilon (Uniform returns
\* min(OneMinusEpsilon, u * 2^-32) for a 32-bit u)
UniformValues == <<0, 4194304, 8388608, 12582912, 16777215>>

\* RNG::SetSequence(sequenceIndex)
RngSetSequence(seq) == [seq |-> seq, pos |-> 0]
\* RNG::Advance(idelta)
RngAdvance(rng, idelta) == [rng EXCEPT !.pos = @ + idelta]
\* (p.x + p.y * 65536) | (uint64_t(seed) << 32)
RngStream(p, seed) == <<seed, p[1] + p[2] * 65536>>
\* the value the generator yields at a position of a stream, in units
UniformAt(rng) ==
    UniformValues[((rng.seq[1] * 3 + rng.seq[2] * 2 + (rng.seq[2] \div 65536)
                    + rng.pos + (rng.pos \div 8192)) % Len(UniformValues)) + 1]
\* the generator after one Uniform<Float>() call
RngNext(rng) == [rng EXCEPT !.pos = @ + 1]

-----------------------------------------------------------------------------
(* Hashing helpers (pbrt/util/hash.h, math.h, bluenoise.h) *)

\* PermutationElement(i, l, p): the image of i under the permutation of
\* 0 .. l-1 selected by the key p
PermutationElement(i, l, p) ==
    LET j == (i + p) % l
    IN  IF (p \div 2) % 2 = 1 THEN l - 1 - j ELSE j

\* BlueNoise(textureIndex, p): a texel of the blue-noise texture, units of 2^-24
BlueNoiseResolution == 4
BlueNoise(textureIndex, p) ==
    LET x == Mod(p[1], BlueNoiseResolution)
        y == Mod(p[2], BlueNoiseResolution)
    IN  ((textureIndex * 5 + x * 3 + y * 7 + x * y) % 8) * (FloatOne \div 8)

-----------------------------------------------------------------------------
(* Sobol' primitives (pbrt/util/lowdiscrepancy.h, sobolmatrices.h) *)

\* bits of a Sobol' sample (32 in the source, scaled)
SobolBits == 6
SobolOne == 64

\* the direction numbers of the first dimensions, SobolBits bits each
SobolMatrices ==
    << <<32, 16, 8, 4, 2, 1>>,
       <<32, 48, 40, 60, 34, 51>>,
       <<32, 48, 24, 36, 58, 23>>,
       <<32, 48, 8, 20, 62, 29>>,
       <<32, 16, 8, 44, 62, 55>>,
       <<32, 16, 24, 12, 50, 9>>,
       <<32, 48, 40, 52, 22, 37>> >>

RECURSIVE Xor(_, _)
Xor(a, b) ==
    IF a = 0 THEN b
    ELSE IF b = 0 THEN a
    ELSE ((a + b) % 2) + 2 * Xor(a \div 2, b \div 2)

\* the xor of the direction numbers selected by the bits of a
RECURSIVE SobolBitsXor(_, _, _)
SobolBitsXor(a, dim, i) ==
    IF a = 0 \/ i > SobolBits THEN 0
    ELSE Xor(IF a % 2 = 1 THEN SobolMatrices[dim + 1][i] ELSE 0,
             SobolBitsXor(a \div 2, dim, i + 1))

\* the first SobolOne points of every dimension, computed once
SobolPoints ==
    [dim \in 0 .. Len(SobolMatrices) - 1 |->
        [a \in 0 .. SobolOne - 1 |-> SobolBitsXor(a, dim, 1)]]

\* the unrandomized fixed-point value of sample a in a dimension
SobolPoint(a, dim) ==
    IF a < SobolOne THEN SobolPoints[dim][a] ELSE SobolBitsXor(a, dim, 1)

\* the randomizers: records [type, arg]
NoRandomizer == [type |-> "None", arg |-> 0]
CranleyPattersonRotator(offset) == [type |-> "CranleyPatterson", arg |-> offset]
XORScrambler(hash) == [type |-> "XOR", arg |-> hash]
OwenScrambler(hash) == [type |-> "Owen", arg |-> hash]

\* Owen scrambling: every bit is flipped by a hash of the seed and of the
\* bits above it
RECURSIVE OwenBits(_, _, _)
OwenBits(v, seed, i) ==
    IF i = 0 THEN 0
    ELSE LET top == v \div Pow(2, i)
             bit == (v \div Pow(2, i - 1)) % 2
             flip == MixBits(HashKey(seed, top, i, 3)) % 2
         IN  ((bit + flip) % 2) * Pow(2, i - 1) + OwenBits(v, seed, i - 1)

Randomize(r, v) ==
    CASE r.type = "None" -> v
      [] r.type = "CranleyPatterson" -> (v + r.arg) % SobolOne
      [] r.type = "XOR" -> Xor(v, r.arg % SobolOne)
      [] r.type = "Owen" -> OwenBits(v, r.arg, SobolBits)

\* SobolSample(a, dimension, randomizer)
SobolSample(a, dimension, randomizer) ==
    ClampBelowOne(Rat(Randomize(randomizer, SobolPoint(a, dimension)), SobolOne))

\* a Float in units of 2^-24, or a 32-bit hash, as the fixed-point offset of a
\* Cranley-Patterson rotation
FloatToFixed(units) == units \div (FloatOne \div SobolOne)
HashToFixed(hash) == (hash * 5) % SobolOne

\* the pixel a sample's first two dimensions fall into at resolution 2^m
SobolPixel(i, m) ==
    <<SobolPoint(i, 0) \div (SobolOne \div Pow(2, m)),
      SobolPoint(i, 1) \div (SobolOne \div Pow(2, m))>>

\* SobolIntervalToIndex(m, frame, p): the index of the frame-th sample that
\* falls into pixel p of the 2^m x 2^m grid
SobolIntervalToIndex(m, frame, p) ==
    IF m = 0 THEN frame
    ELSE LET n == Pow(4, m)
         IN  CHOOSE i \in frame * n .. (frame + 1) * n - 1 : SobolPixel(i, m) = p

RECURSIVE Log2Int(_)
Log2Int(v) == IF v <= 1 THEN 0 ELSE 1 + Log2Int(v \div 2)
RECURSIVE RoundUpPow2From(_, _)
RoundUpPow2From(v, p) == IF p >= v THEN p ELSE RoundUpPow2From(v, 2 * p)
RoundUpPow2(v) == RoundUpPow2From(v, 1)

-----------------------------------------------------------------------------
(* PaddedSobolSampler *)

\* StartPixelSample (lines 149-153)
PaddedSobolStartPixelSample(cf, s, p, index, dim) ==
    [s EXCEPT !.pixel = p, !.sampleIndex = index, !.dimension = dim]

\* a SampleDimension whose None case scrambles with the hash of the pixel: the
\* pixel independence of C12 rests on NoRandomizer
PaddedSobolSampleDimensionHashed(cf, dimension, a, hash) ==
    CASE cf.randomizeStrategy = "None" -> SobolSample(a, dimension, XORScrambler(hash))
      [] cf.randomizeStrategy = "XOR" -> SobolSample(a, dimension, XORScrambler(hash))
      [] cf.randomizeStrategy = "Owen" -> SobolSample(a, dimension, OwenScrambler(hash))

\* SampleDimension(dimension, a, hash), for the strategies other than
\* Cranley-Patterson
PaddedSobolSampleDimension(cf, dimension, a, hash) ==
    CASE cf.randomizeStrategy = "None" -> SobolSample(a, dimension, NoRandomizer)
      [] cf.randomizeStrategy = "XOR" -> SobolSample(a, dimension, XORScrambler(hash))
      [] cf.randomizeStrategy = "Owen" -> SobolSample(a, dimension, OwenScrambler(hash))

\* the hash of (pixel, dimension, seed) that Get1D and Get2D of the padded
\* Sobol', PMJ02BN and stratified samplers compute first
PixelDimHash(s, seed) ==
    MixBits(HashKey(s.pixel[1], s.pixel[2], s.dimension, seed))

\* the permuted index for the current pixel sample (lines 158-160, 175-177)
PaddedSobolIndex(cf, s) ==
    PermutationElement(s.sampleIndex, cf.samplesPerPixel,
                       Hash32(PixelDimHash(s, cf.optSeed)))

\* Get1D (lines 156-170)
PaddedSobolGet1D(cf, s) ==
    LET hash == PixelDimHash(s, cf.optSeed)
        index == PaddedSobolIndex(cf, s)
        dim == s.dimension
        st == [s EXCEPT !.dimension = dim + 1]
    IN  IF cf.randomizeStrategy = "CranleyPatterson"
        THEN Outcome(st, <<SobolSample(index, 0,
                 CranleyPattersonRotator(FloatToFixed(BlueNoise(dim, s.pixel))))>>, <<>>)
        ELSE Outcome(st, <<PaddedSobolSampleDimension(cf, 0, index,
                               Hash32(HashShift(hash, 32)))>>, <<>>)

\* Get2D (lines 173-191)
PaddedSobolGet2D(cf, s) ==
    LET hash == PixelDimHash(s, cf.optSeed)
        index == PaddedSobolIndex(cf, s)
        dim == s.dimension
        st == [s EXCEPT !.dimension = dim + 2]
    IN  IF cf.randomizeStrategy = "CranleyPatterson"
        THEN Outcome(st,
                 <<SobolSample(index, 0,
                       CranleyPattersonRotator(FloatToFixed(BlueNoise(dim, s.pixel)))),
                   SobolSample(index, 1,
                       CranleyPattersonRotator(FloatToFixed(BlueNoise(dim + 1, s.pixel))))>>,
                 <<>>)
        ELSE Outcome(st,
                 <<PaddedSobolSampleDimension(cf, 0, index, Hash32(HashShift(hash, 8))),
                   PaddedSobolSampleDimension(cf, 1, index, Hash32(HashShift(hash, 32)))>>,
                 <<>>)

-----------------------------------------------------------------------------
(* PMJ02BNSampler *)

\* number of precomputed pmj02bn point sets (pbrt/util/pmj02tables.h)
nPMJ02bnSets == 2
\* side of the pixel tile the pixel samples are precomputed for
PixelTileSize == 2

\* GetPMJ02BNSample(setIndex, sampleIndex): a point of a precomputed set,
\* both coordinates in units of 2^-24
GetPMJ02BNSample(setIndex, sampleIndex) ==
    LET set == setIndex % nPMJ02bnSets
        i == sampleIndex % 4
    IN  <<((2 * i + set) % 8) * (FloatOne \div 8),
          ((3 * i + 5 * set + 1) % 8) * (FloatOne \div 8)>>

\* the constructor's table: for every pixel of the tile, samplesPerPixel
\* points of [0,1)^2
ComputePixelSamples(samplesPerPixel, seed) ==
    [i \in 1 .. PixelTileSize * PixelTileSize * samplesPerPixel |->
        <<Rat((3 * (i - 1) + seed) % 8, 8), Rat((5 * (i - 1) + 2 * seed + 1) % 8, 8)>>]

\* StartPixelSample (lines 235-239)
PMJ02BNStartPixelSample(cf, s, p, index, dim) ==
    [s EXCEPT !.pixel = p, !.sampleIndex = index, !.dimension = dim]

\* Get1D (lines 242-251)
PMJ02BNGet1D(cf, s) ==
    LET hash == PixelDimHash(s, cf.seed)
        index == PermutationElement(s.sampleIndex, cf.samplesPerPixel, Hash32(hash))
        delta == BlueNoise(s.dimension, s.pixel)
    IN  Outcome([s EXCEPT !.dimension = @ + 1],
                <<ClampBelowOne(FloatDivInt(FloatAddInt(index, delta),
                                            cf.samplesPerPixel))>>,
                <<>>)

\* one coordinate of the rotated sample (lines 277-284): the sum, wrapped
\* once, clamped
RotateWrap(u, noise) ==
    LET sum == RoundToFloat(u + noise)
        w == IF sum >= FloatOne THEN sum - FloatOne ELSE sum
    IN  ClampBelowOne(Rat(w, FloatOne))

\* the index of the pmj02bn pixel sample in pixelSamples (lines 257-260)
PixelSampleIndex(cf, s) ==
    LET px == TruncRem(s.pixel[1], PixelTileSize)
        py == TruncRem(s.pixel[2], PixelTileSize)
        offset == (px + py * PixelTileSize) * cf.samplesPerPixel
    IN  offset + s.sampleIndex

\* Get2D (lines 254-286)
PMJ02BNGet2D(cf, table, s) ==
    IF s.dimension = 0
    THEN LET at == PixelSampleIndex(cf, s)
         IN  IF at < 0 \/ at >= Len(table)
             THEN \* the read is outside pixelSamples
                  Outcome([s EXCEPT !.aborted = TRUE], <<>>, <<>>)
             ELSE Outcome([s EXCEPT !.dimension = 2], table[at + 1], <<>>)
    ELSE LET pmjInstance == s.dimension \div 2
             index == IF pmjInstance >= nPMJ02bnSets
                      THEN PermutationElement(s.sampleIndex, cf.samplesPerPixel,
                                              Hash32(PixelDimHash(s, cf.seed)))
                      ELSE s.sampleIndex
             u == GetPMJ02BNSample(pmjInstance, index)
         IN  Outcome([s EXCEPT !.dimension = @ + 2],
                     <<RotateWrap(u[1], BlueNoise(s.dimension, s.pixel)),
                       RotateWrap(u[2], BlueNoise(s.dimension + 1, s.pixel))>>,
                     <<>>)

-----------------------------------------------------------------------------
(* RandomSampler *)

\* a StartPixelSample that advances the stream the generator is on instead of
\* selecting the stream of the pixel: the determinism of C1 rests on the reseed
RandomStartKeepsStream(cf, s, p, sampleIndex, dimension) ==
    [s EXCEPT !.rng = RngAdvance(@, sampleIndex * 65536 + dimension)]

\* StartPixelSample (lines 316-319)
RandomStartPixelSample(cf, s, p, sampleIndex, dimension) ==
    [s EXCEPT !.rng = RngAdvance(RngSetSequence(RngStream(p, cf.seed)),
                                 sampleIndex * 65536 + dimension)]

\* Get1D (line 322)
RandomGet1D(cf, s) ==
    Outcome([s EXCEPT !.rng = RngNext(@)], <<Rat(UniformAt(s.rng), FloatOne)>>, <<>>)

\* Get2D (line 324)
RandomGet2D(cf, s) ==
    Outcome([s EXCEPT !.rng = RngNext(RngNext(@))],
            <<Rat(UniformAt(s.rng), FloatOne), Rat(UniformAt(RngNext(s.rng)), FloatOne)>>,
            <<>>)

-----------------------------------------------------------------------------
(* SobolSampler *)

\* the constructor's scale (line 346)
SobolScale(fullResolution) == RoundUpPow2(Max(fullResolution[1], fullResolution[2]))

\* StartPixelSample (lines 359-363)
SobolStartPixelSample(cf, s, p, sampleIndex, dim) ==
    [s EXCEPT !.pixel = p, !.dimension = dim,
              !.sobolIndex = SobolIntervalToIndex(Log2Int(cf.scale), sampleIndex, p)]

\* SampleDimension(dimension) (lines 395-408)
SobolSampleDimension(cf, s, dimension) ==
    IF dimension < 2 \/ cf.randomizeStrategy = "None"
    THEN SobolSample(s.sobolIndex, dimension, NoRandomizer)
    ELSE LET hash == Hash32(MixBits(HashKey(0, dimension, 0, cf.optSeed)))
         IN  IF cf.randomizeStrategy = "CranleyPatterson"
             THEN SobolSample(s.sobolIndex, dimension,
                              CranleyPattersonRotator(HashToFixed(hash)))
             ELSE IF cf.randomizeStrategy = "XOR"
             THEN SobolSample(s.sobolIndex, dimension, XORScrambler(hash))
             ELSE SobolSample(s.sobolIndex, dimension, OwenScrambler(hash))

\* a Get1D that advances from the cursor it found, not from the dimension it
\* sampled: the cursor rule of C4 rests on the assignment after the wrap
SobolGet1DFromCursor(cf, s) ==
    LET dim == IF s.dimension >= NSobolDimensions THEN 2 ELSE s.dimension
    IN  Outcome([s EXCEPT !.dimension = s.dimension + 1],
                <<SobolSampleDimension(cf, s, dim)>>, <<dim>>)

\* Get1D (lines 366-370)
SobolGet1D(cf, s) ==
    LET dim == IF s.dimension >= NSobolDimensions THEN 2 ELSE s.dimension
    IN  Outcome([s EXCEPT !.dimension = dim + 1],
                <<SobolSampleDimension(cf, s, dim)>>, <<dim>>)

\* Clamp(u * scale - pixel, 0, OneMinusEpsilon) (line 382)
SobolRemap(u, scale, px) ==
    LET n == Num(u) * scale - px * Den(u)
    IN  IF n < 0 THEN Rat(0, Den(u)) ELSE ClampBelowOne(Rat(n, Den(u)))

\* Get2D (lines 373-387)
SobolGet2D(cf, s, ub) ==
    LET wrap == WrapTest2D(s.dimension, NSobolDimensions, ub)
        dim == IF wrap THEN 2 ELSE s.dimension
    IN  IF dim = IntMax
        THEN \* the direction numbers of dimension INT_MAX are read: outside the table
             Outcome([s EXCEPT !.aborted = TRUE], <<>>, <<IntMax>>)
        ELSE LET u == <<SobolSampleDimension(cf, s, dim),
                        SobolSampleDimension(cf, s, dim + 1)>>
             IN  Outcome([s EXCEPT !.dimension = dim + 2],
                         IF dim = 0
                         THEN <<SobolRemap(u[1], cf.scale, s.pixel[1]),
                                SobolRemap(u[2], cf.scale, s.pixel[2])>>
                         ELSE u,
                         <<dim, dim + 1>>)

-----------------------------------------------------------------------------
(* StratifiedSampler *)

\* SamplesPerPixel() (line 434)
StratifiedSamplesPerPixel(cf) == cf.xPixelSamples * cf.yPixelSamples

\* StartPixelSample (lines 437-443)
StratifiedStartPixelSample(cf, s, p, index, dim) ==
    [s EXCEPT !.pixel = p, !.sampleIndex = index, !.dimension = dim,
              !.rng = RngAdvance(RngSetSequence(RngStream(p, cf.seed)),
                                 index * 65536 + dim)]

\* Get1D's stratum index for the current pixel and dimension (lines 448-450)
StratifiedStratum1D(cf, s) ==
    LET hash == MixBits(HashKey(s.pixel[1], s.pixel[2], s.dimension, cf.seed))
    IN  PermutationElement(s.sampleIndex, StratifiedSamplesPerPixel(cf), Hash32(hash))

\* a Get2D stratum keyed apart from Get1D's: the agreement of C17 rests on the
\* two calls hashing the same key
StratifiedStratum2DSalted(cf, s) ==
    LET hash == MixBits(HashKey(s.pixel[1], s.pixel[2], s.dimension, cf.seed))
    IN  PermutationElement(s.sampleIndex, StratifiedSamplesPerPixel(cf), Hash32(hash) + 1)

\* Get2D's stratum index for the current pixel and dimension (lines 460-462)
StratifiedStratum2D(cf, s) ==
    LET hash == MixBits(HashKey(s.pixel[1], s.pixel[2], s.dimension, cf.seed))
    IN  PermutationElement(s.sampleIndex, StratifiedSamplesPerPixel(cf), Hash32(hash))

\* Get1D (lines 446-455)
StratifiedGet1D(cf, s) ==
    LET stratum == StratifiedStratum1D(cf, s)
        delta == IF cf.jitter THEN UniformAt(s.rng) ELSE FloatOne \div 2
    IN  Outcome([s EXCEPT !.dimension = @ + 1,
                          !.rng = IF cf.jitter THEN RngNext(@) ELSE @],
                <<FloatDivInt(FloatAddInt(stratum, delta),
                              StratifiedSamplesPerPixel(cf))>>,
                <<>>)

\* Get2D (lines 458-469)
StratifiedGet2D(cf, s) ==
    LET stratum == StratifiedStratum2D(cf, s)
        x == stratum % cf.xPixelSamples
        y == stratum \div cf.xPixelSamples
        dx == IF cf.jitter THEN UniformAt(s.rng) ELSE FloatOne \div 2
        dy == IF cf.jitter THEN UniformAt(RngNext(s.rng)) ELSE FloatOne \div 2
    IN  Outcome([s EXCEPT !.dimension = @ + 2,
                          !.rng = IF cf.jitter THEN RngNext(RngNext(@)) ELSE @],
                <<FloatDivInt(FloatAddInt(x, dx), cf.xPixelSamples),
                  FloatDivInt(FloatAddInt(y, dy), cf.yPixelSamples)>>,
                <<>>)

-----------------------------------------------------------------------------
(* MLTSampler and DebugMLTSampler *)

\* MLTSampler::PrimarySample as value-initialized (lines 540-564)
NewPrimarySample ==
    [value |-> 0, lastModificationIteration |-> 0, valueBackup |-> 0, modifyBackup |-> 0]

\* PrimarySample::Backup (lines 544-547)
Backup(Xi) ==
    [Xi EXCEPT !.valueBackup = Xi.value, !.modifyBackup = Xi.lastModificationIteration]

\* PrimarySample::Restore (lines 549-552)
Restore(Xi) ==
    [Xi EXCEPT !.value = Xi.valueBackup, !.lastModificationIteration = Xi.modifyBackup]

\* a GetNextIndex that forgets the stride between the requests of one stream:
\* the stream isolation of C11 rests on the factor streamCount
GetNextIndexUnstrided(cf, s) == s.streamIndex + s.sampleIndex

\* MLTSampler::GetNextIndex (line 505): the index returned
GetNextIndex(cf, s) == s.streamIndex + cf.streamCount * s.sampleIndex
\* MLTSampler::GetNextIndex (line 505): the instance afterwards
AfterNextIndex(s) == [s EXCEPT !.sampleIndex = @ + 1]

\* MLTSampler::StartPixelSample (lines 511-514)
MLTStartPixelSample(cf, s, p, sampleIndex, dim) ==
    [s EXCEPT !.rng = RngAdvance(RngSetSequence(<<0, p[1] + p[2] * 65536>>),
                                 sampleIndex * 65536 + dim * 8192)]

\* MLTSampler::StartIteration: the iteration counter goes up, the step kind
\* is drawn, the stream and sample cursors are reset
MLTStartIteration(cf, s) ==
    [s EXCEPT !.currentIteration = @ + 1,
              !.largeStep = UniformAt(s.rng) < cf.largeStepProbability,
              !.rng = RngNext(@),
              !.streamIndex = 0,
              !.sampleIndex = 0]

\* MLTSampler::StartStream
MLTStartStream(cf, s, index) == [s EXCEPT !.streamIndex = index, !.sampleIndex = 0]

\* MLTSampler::Accept
MLTAccept(cf, s) ==
    IF s.largeStep THEN [s EXCEPT !.lastLargeStepIteration = s.currentIteration] ELSE s

\* MLTSampler::Reject: every primary sample touched in this iteration is
\* restored, then the iteration counter is rewound
MLTReject(cf, s) ==
    [s EXCEPT !.X = [i \in DOMAIN s.X |->
                        IF s.X[i].lastModificationIteration = s.currentIteration
                        THEN Restore(s.X[i]) ELSE s.X[i]],
              !.currentIteration = @ - 1]

\* X.resize(index + 1): X grown with value-initialized samples
Resize(X, n) == [i \in 1 .. Max(Len(X), n) |-> IF i <= Len(X) THEN X[i] ELSE NewPrimarySample]

\* a small-step perturbation of nSmall accumulated steps driven by the draw
\* u, wrapped into [0,1); no step, no change
Perturb(value, u, nSmall) ==
    IF nSmall = 0 THEN value
    ELSE (value + ((u \div (FloatOne \div 4)) + nSmall) * (FloatOne \div 4)) % FloatOne

\* MLTSampler::EnsureReady(index): the sample is created if it does not exist,
\* backed up, and brought to the current iteration
MLTEnsureReady(cf, s, index) ==
    LET X0 == Resize(s.X, index + 1)
        Xi == X0[index + 1]
        fresh == index >= Len(s.X)
        Xb == Backup(Xi)
        \* a sample that has never been touched, or was last touched before
        \* the last large step, starts from a uniform value at that step
        reset == fresh \/ Xi.lastModificationIteration < s.lastLargeStepIteration
        r1 == IF reset /\ ~s.largeStep THEN RngNext(s.rng) ELSE s.rng
        base == IF reset
                THEN [Xb EXCEPT !.value = UniformAt(s.rng),
                                !.lastModificationIteration = s.lastLargeStepIteration]
                ELSE Xb
        Xn == IF s.largeStep
              THEN [Xb EXCEPT !.value = UniformAt(s.rng)]
              ELSE [base EXCEPT !.value =
                        Perturb(base.value, UniformAt(r1),
                                s.currentIteration - base.lastModificationIteration)]
    IN  [s EXCEPT !.X = [X0 EXCEPT ![index + 1] =
                            [Xn EXCEPT !.lastModificationIteration = s.currentIteration]],
                  !.rng = RngNext(r1)]

\* MLTSampler::Get1D
MLTGet1D(cf, s) ==
    LET index == GetNextIndex(cf, s)
        st == MLTEnsureReady(cf, AfterNextIndex(s), index)
    IN  Outcome(st, <<Rat(st.X[index + 1].value, FloatOne)>>, <<>>)

\* MLTSampler::Get2D: two Get1D calls, in order
MLTGet2D(cf, s) ==
    LET a == MLTGet1D(cf, s)
        b == MLTGet1D(cf, a.st)
    IN  Outcome(b.st, a.out \o b.out, <<>>)

\* a Get1D without the CHECK_LT, returning the last recorded value beyond the
\* end: the bounds of C7 rest on the check
DebugMLTGet1DUnchecked(cf, s) ==
    LET index == GetNextIndex(cf, s)
    IN  Outcome(AfterNextIndex(s),
                <<Rat(cf.u[Min(index + 1, Len(cf.u))], FloatOne)>>, <<>>)

\* DebugMLTSampler::Get1D (lines 588-596)
DebugMLTGet1D(cf, s) ==
    LET index == GetNextIndex(cf, s)
        st == AfterNextIndex(s)
    IN  IF index < Len(cf.u)
        THEN Outcome(st, <<Rat(cf.u[index + 1], FloatOne)>>, <<>>)
        ELSE \* CHECK_LT(index, u.size()) fails: the process aborts
             Outcome([st EXCEPT !.aborted = TRUE], <<>>, <<>>)

\* DebugMLTSampler::Get2D (line 599): {Get1D(), Get1D()}, left to right
DebugMLTGet2D(cf, s) ==
    LET a == DebugMLTGet1D(cf, s)
    IN  IF a.st.aborted THEN a
        ELSE LET b == DebugMLTGet1D(cf, a.st)
             IN  IF b.st.aborted THEN b ELSE Outcome(b.st, a.out \o b.out, <<>>)

-----------------------------------------------------------------------------
(* SamplerHandle: dispatch on the variant (lines 612-633) *)

MLTKinds == {"MLT", "DebugMLT"}
Kinds == {"Halton", "PaddedSobol", "PMJ02BN", "Random", "Sobol", "Stratified"} \cup MLTKinds
\* the variants that wrap their dimension cursor at a table bound
TableKinds == {"Halton", "Sobol"}
\* the variants that keep a dimension cursor
CursorKinds == {"Halton", "PaddedSobol", "PMJ02BN", "Sobol", "Stratified"}
TableBound(k) == IF k = "Sobol" THEN NSobolDimensions ELSE PrimeTableSize

\* SamplerHandle::SamplesPerPixel
SamplesPerPixel(k, cf) ==
    CASE k = "Stratified" -> StratifiedSamplesPerPixel(cf)
      [] k \in MLTKinds -> cf.mutationsPerPixel
      [] OTHER -> cf.samplesPerPixel

\* SamplerHandle::StartPixelSample
DispatchStart(k, cf, s, p, sampleIndex, dim, ub) ==
    CASE k = "Halton" -> HaltonStartPixelSample(cf, s, p, sampleIndex, dim, ub)
      [] k = "PaddedSobol" -> PaddedSobolStartPixelSample(cf, s, p, sampleIndex, dim)
      [] k = "PMJ02BN" -> PMJ02BNStartPixelSample(cf, s, p, sampleIndex, dim)
      [] k = "Random" -> RandomStartPixelSample(cf, s, p, sampleIndex, dim)
      [] k = "Sobol" -> SobolStartPixelSample(cf, s, p, sampleIndex, dim)
      [] k = "Stratified" -> StratifiedStartPixelSample(cf, s, p, sampleIndex, dim)
      [] k \in MLTKinds -> MLTStartPixelSample(cf, s, p, sampleIndex, dim)

\* SamplerHandle::Get1D
DispatchGet1D(k, cf, perms, table, s, ub) ==
    CASE k = "Halton" -> HaltonGet1D(cf, perms, s)
      [] k = "PaddedSobol" -> PaddedSobolGet1D(cf, s)
      [] k = "PMJ02BN" -> PMJ02BNGet1D(cf, s)
      [] k = "Random" -> RandomGet1D(cf, s)
      [] k = "Sobol" -> SobolGet1D(cf, s)
      [] k = "Stratified" -> StratifiedGet1D(cf, s)
      [] k = "MLT" -> MLTGet1D(cf, s)
      [] k = "DebugMLT" -> DebugMLTGet1D(cf, s)

\* SamplerHandle::Get2D
DispatchGet2D(k, cf, perms, table, s, ub) ==
    CASE k = "Halton" -> HaltonGet2D(cf, perms, s, ub)
      [] k = "PaddedSobol" -> PaddedSobolGet2D(cf, s)
      [] k = "PMJ02BN" -> PMJ02BNGet2D(cf, table, s)
      [] k = "Random" -> RandomGet2D(cf, s)
      [] k = "Sobol" -> SobolGet2D(cf, s, ub)
      [] k = "Stratified" -> StratifiedGet2D(cf, s)
      [] k = "MLT" -> MLTGet2D(cf, s)
      [] k = "DebugMLT" -> DebugMLTGet2D(cf, s)

-----------------------------------------------------------------------------
(* Construction *)

Clones == {1, 2}
Strategies == {"None", "CranleyPatterson", "XOR", "Owen"}

\* the configurations explored, per variant
Configs(k) ==
    CASE k = "Halton" ->
           { HaltonConstruct(2, res, 0) : res \in {<<1, 1>>, <<4, 3>>, <<128, 128>>} }
      [] k = "PaddedSobol" ->
           { [samplesPerPixel |-> 2, randomizeStrategy |-> r, optSeed |-> 0] : r \in Strategies }
      [] k = "PMJ02BN" ->
           { [samplesPerPixel |-> 2, seed |-> sd] : sd \in {0, 1} }
      [] k = "Random" ->
           { [samplesPerPixel |-> 2, seed |-> sd] : sd \in {0, 1} }
      [] k = "Sobol" ->
           { [samplesPerPixel |-> 2, scale |-> SobolScale(res), randomizeStrategy |-> r,
              optSeed |-> 0] : res \in {<<2, 2>>}, r \in Strategies }
           \cup { [samplesPerPixel |-> 2, scale |-> SobolScale(<<4, 3>>),
                   randomizeStrategy |-> "Owen", optSeed |-> 1],
                  [samplesPerPixel |-> 2, scale |-> SobolScale(<<1, 1>>),
                   randomizeStrategy |-> "None", optSeed |-> 0] }
      [] k = "Stratified" ->
           { [xPixelSamples |-> g[1], yPixelSamples |-> g[2], jitter |-> j, seed |-> 0] :
               g \in {<<2, 1>>, <<1, 2>>}, j \in BOOLEAN }
      [] k = "MLT" ->
           { [mutationsPerPixel |-> 2, rngSequenceIndex |-> 0,
              largeStepProbability |-> FloatOne \div 2, streamCount |-> n] : n \in {1, 2} }
      [] k = "DebugMLT" ->
           { [mutationsPerPixel |-> 1, rngSequenceIndex |-> 0,
              largeStepProbability |-> FloatOne \div 2, streamCount |-> n, u |-> u] :
               n \in {1, 2},
               u \in { <<4194304>>, <<4194304, 12582912, 8388608>> } }

\* the values an int member without an initializer may hold after construction
Indeterminate == {0, 1}

\* an instance right after construction; un is the value of the members the
\* class leaves uninitialized
NewInstance(k, cf, un) ==
    [aborted |-> FALSE,
     pixel |-> <<0, 0>>,
     sampleIndex |-> IF k \in {"PaddedSobol", "PMJ02BN"} \cup MLTKinds THEN un ELSE 0,
     dimension |-> IF k \in {"PaddedSobol", "PMJ02BN", "Sobol"} THEN un ELSE 0,
     haltonIndex |-> 0,
     sobolIndex |-> IF k = "Sobol" THEN un ELSE 0,
     rng |-> IF k \in MLTKinds THEN RngSetSequence(<<0, cf.rngSequenceIndex>>)
             ELSE RngSetSequence(<<0, 0>>),
     X |-> <<>>,
     currentIteration |-> 0,
     largeStep |-> TRUE,
     lastLargeStepIteration |-> 0,
     streamIndex |-> IF k \in MLTKinds THEN un ELSE 0]

\* what has been observed of an instance nobody has used yet
NewLog ==
    [started |-> FALSE, win |-> TRUE, args |-> <<>>, calls |-> <<>>, outs |-> <<>>,
     used |-> <<>>, phase |-> "none", snapX |-> <<>>, snapIter |-> 0, steps |-> 0,
     dirty |-> FALSE, inProtocol |-> TRUE]

\* the generators a run may be about: a variant and its configuration
Setups(K) == UNION { { <<k, cf>> : cf \in Configs(k) } : k \in K }

\* a newly constructed instance on which calls are replayed, one for each
\* value its uninitialized members may hold
NewReplay(k, cf) ==
    [un \in Indeterminate |-> [st |-> NewInstance(k, cf, un), outs |-> <<>>]]

InitWith(S) ==
    /\ \E kc \in S : kind = kc[1] /\ conf = kc[2]
    /\ digitPermutations =
           IF kind = "Halton" THEN ComputeRadicalInversePermutations(conf.seed) ELSE <<>>
    /\ pixelSamples =
           IF kind = "PMJ02BN" THEN ComputePixelSamples(conf.samplesPerPixel, conf.seed)
           ELSE <<>>
    /\ \E un \in Indeterminate : smp = [c \in Clones |-> NewInstance(kind, conf, un)]
    /\ log = [c \in Clones |-> NewLog]
    /\ solo = [c \in Clones |-> [st |-> smp[c], outs |-> <<>>]]
    /\ replay = [c \in Clones |-> NewReplay(kind, conf)]
    /\ seen = <<>>

-----------------------------------------------------------------------------
(* Operations *)

\* a write that also lands in the other clones, as a cursor kept in shared
\* storage would: the independence of C3 rests on per-instance members
WriteBackShared(c, st) ==
    [i \in Clones |-> IF i = c THEN st ELSE [smp[i] EXCEPT !.dimension = st.dimension]]

\* a member function writes the members of its own instance only
WriteBack(c, st) == [smp EXCEPT ![c] = st]

NoneAborted == \A c \in Clones : ~smp[c].aborted

\* a call that mutates primary samples ends the moment just after a Reject
AfterGet(phase) == IF phase = "iter" THEN "iter" ELSE "none"

\* whether every Get1D/Get2D of a Metropolis instance so far was made between a
\* StartIteration and its Accept or Reject
StillInProtocol(lg) == lg.inProtocol /\ (kind \in MLTKinds => lg.phase = "iter")

LogGet(lg, name, o) ==
    IF lg.win
    THEN [lg EXCEPT !.calls = Append(@, name), !.outs = Append(@, o.out), !.used = o.used,
                    !.phase = AfterGet(@), !.inProtocol = StillInProtocol(lg)]
    ELSE [lg EXCEPT !.used = o.used, !.phase = AfterGet(@),
                    !.inProtocol = StillInProtocol(lg)]

\* the same call on a replay instance
ReplayGet(r, o, win) ==
    [st |-> o.st, outs |-> IF win THEN Append(r.outs, o.out) ELSE r.outs]

\* StartPixelSample(p, sampleIndex, dim) on clone c: the instance, its
\* isolated twin and the replay instances
StartCall(c, p, sampleIndex, dim, ub) ==
    /\ NoneAborted
    /\ kind \in MLTKinds => log[c].steps < MaxSteps
    /\ smp' = WriteBack(c, DispatchStart(kind, conf, smp[c], p, sampleIndex, dim, ub))
    /\ solo' = [solo EXCEPT ![c] =
                   [st |-> DispatchStart(kind, conf, solo[c].st, p, sampleIndex, dim, ub),
                    outs |-> <<>>]]
    /\ replay' = [replay EXCEPT ![c] =
                    [un \in Indeterminate |->
                        [st |-> DispatchStart(kind, conf, NewInstance(kind, conf, un),
                                              p, sampleIndex, dim, ub),
                         outs |-> <<>>]]]
    /\ log' = [log EXCEPT ![c] =
                  [@ EXCEPT !.started = TRUE, !.win = TRUE, !.args = <<p, sampleIndex, dim>>,
                            !.calls = <<>>, !.outs = <<>>, !.used = <<>>,
                            !.steps = IF kind \in MLTKinds THEN @ + 1 ELSE @,
                            !.dirty = log[c].calls # <<>> \/ log[c].steps > 0]]
    /\ UNCHANGED <<kind, conf, digitPermutations, pixelSamples>>

\* the caller's StartPixelSample(p, sampleIndex, dim) on clone c
StartPixelSample(c, p, sampleIndex, dim, ub) ==
    StartCall(c, p, sampleIndex, dim, ub) /\ UNCHANGED seen

\* whether the caller may go on asking clone c for values: the recorded calls
\* are capped, and a Metropolis instance grows X to MaxX samples and draws
\* MaxDraws random numbers at most (a debug instance stops at the end of its
\* recorded values by itself)
MayGet(c, n) ==
    /\ NoneAborted
    /\ log[c].win => Len(log[c].calls) < MaxCalls
    /\ kind = "MLT" =>
          /\ GetNextIndex(conf, smp[c]) + (n - 1) * conf.streamCount < MaxX
          /\ smp[c].rng.pos < MaxDraws

\* SamplerHandle::Get1D / Get2D on an instance of the generator at hand
Get1DOf(st, ub) == DispatchGet1D(kind, conf, digitPermutations, pixelSamples, st, ub)
Get2DOf(st, ub) == DispatchGet2D(kind, conf, digitPermutations, pixelSamples, st, ub)

\* a Get call on clone c with outcome o: its isolated twin has outcome so and
\* the replay instances have the outcomes ro
GetStep(c, name, o, so, ro) ==
    /\ smp' = WriteBack(c, o.st)
    /\ log' = [log EXCEPT ![c] = LogGet(@, name, o)]
    /\ solo' = [solo EXCEPT ![c] = ReplayGet(@, so, log[c].win)]
    /\ replay' = [replay EXCEPT ![c] =
                     [un \in Indeterminate |->
                         IF log[c].win /\ ~replay[c][un].st.aborted
                         THEN ReplayGet(replay[c][un], ro[un], TRUE)
                         ELSE replay[c][un]]]
    /\ UNCHANGED <<kind, conf, digitPermutations, pixelSamples>>

\* the caller's Get1D() on clone c
Get1D(c, ub) ==
    /\ MayGet(c, 1)
    /\ \E o \in {Get1DOf(smp[c], ub)}, so \in {Get1DOf(solo[c].st, ub)} :
          GetStep(c, "1D", o, so, [un \in Indeterminate |-> Get1DOf(replay[c][un].st, ub)])
    /\ UNCHANGED seen

\* Get2D() on clone c
Get2DCall(c, ub) ==
    /\ MayGet(c, 2)
    /\ \E o \in {Get2DOf(smp[c], ub)}, so \in {Get2DOf(solo[c].st, ub)} :
          GetStep(c, "2D", o, so, [un \in Indeterminate |-> Get2DOf(replay[c][un].st, ub)])

\* the caller's Get2D() on clone c
Get2D(c, ub) ==
    Get2DCall(c, ub) /\ UNCHANGED seen

\* a Metropolis operation other than Get: the instance it leaves, and the
\* protocol position afterwards
MLTStep(c, st, lg) ==
    /\ kind \in MLTKinds
    /\ NoneAborted
    /\ log[c].steps < MaxSteps
    /\ smp' = WriteBack(c, st)
    /\ solo' = [solo EXCEPT ![c] = [st |-> st, outs |-> <<>>]]
    /\ replay' = [replay EXCEPT ![c] = NewReplay(kind, conf)]
    /\ log' = [log EXCEPT ![c] =
                  [lg EXCEPT !.win = FALSE, !.args = <<>>, !.calls = <<>>, !.outs = <<>>,
                             !.used = <<>>, !.steps = @ + 1]]
    /\ UNCHANGED <<kind, conf, digitPermutations, pixelSamples, seen>>

\* the integrator proposes a mutation; the primary samples and the iteration
\* counter it starts from are remembered
StartIteration(c) ==
    /\ kind \in MLTKinds
    /\ log[c].phase # "iter"
    /\ smp[c].rng.pos < MaxDraws
    /\ MLTStep(c, MLTStartIteration(conf, smp[c]),
               [log[c] EXCEPT !.phase = "iter", !.snapX = smp[c].X,
                              !.snapIter = smp[c].currentIteration])

StartStream(c, index) ==
    MLTStep(c, MLTStartStream(conf, smp[c], index), log[c])

\* the integrator accepts the proposal of the current iteration
Accept(c) ==
    /\ kind \in MLTKinds
    /\ log[c].phase = "iter"
    /\ MLTStep(c, MLTAccept(conf, smp[c]), [log[c] EXCEPT !.phase = "accepted"])

\* the integrator rejects the proposal of the current iteration
Reject(c) ==
    /\ kind \in MLTKinds
    /\ log[c].phase = "iter"
    /\ MLTStep(c, MLTReject(conf, smp[c]), [log[c] EXCEPT !.phase = "rejected"])

-----------------------------------------------------------------------------
(* Specification: one instance of any variant, used by one caller *)

\* the arguments StartPixelSample is called with; a Metropolis instance only
\* reseeds its random number generator from them; a RandomSampler packs the
\* pixel and the dimension into 16-bit fields, so it is also started beyond
\* them; a PMJ02BNSampler is also started left of the image
Pixels ==
    CASE kind \in MLTKinds -> {<<1, 1>>}
      [] kind = "Random" -> {<<0, 0>>, <<1, 1>>, <<65537, 0>>}
      [] kind = "PMJ02BN" -> {<<0, 0>>, <<1, 1>>, <<-1, 0>>}
      [] OTHER -> {<<0, 0>>, <<1, 1>>}
SampleIndices == 0 .. SamplesPerPixel(kind, conf) - 1
StartDims ==
    CASE kind \in MLTKinds -> {0}
      [] kind = "Random" -> {0, 1, 2, 65536}
      [] kind \in TableKinds ->
           {0, 1, 2, TableBound(kind) - 1, TableBound(kind), TableBound(kind) + 1, IntMax}
      [] OTHER -> {0, 1, 2, TableBound(kind) - 1, TableBound(kind)}
StreamIndices == IF kind \in MLTKinds THEN 0 .. conf.streamCount - 1 ELSE {}

Init == InitWith(Setups(Kinds))

Start(c) ==
    \E p \in Pixels, k \in SampleIndices, d \in StartDims :
        StartPixelSample(c, p, k, d, TRUE)

\* what the caller that owns clone c may do next
Worker(c) ==
    \/ Start(c)
    \/ Get1D(c, TRUE)
    \/ \E ub \in BOOLEAN : Get2D(c, ub)
    \/ StartIteration(c)
    \/ \E i \in StreamIndices : StartStream(c, i)
    \/ Accept(c)
    \/ Reject(c)

Next == Worker(1)

Spec == Init /\ [][Next]_vars

-----------------------------------------------------------------------------
(* Properties of the single-instance specification *)

Started(c) == log[c].started /\ log[c].win
Generators == Kinds \ MLTKinds

\* the outputs recorded for clone c are those of a newly constructed instance
\* given the same StartPixelSample and the same calls
SameAsReplay(c) == \A un \in Indeterminate : replay[c][un].outs = log[c].outs

\* C1 (as stated): on every variant, the Metropolis sampler included, the
\* outputs after StartPixelSample(pixel, sampleIndex, dimension) depend only
\* on the configuration, those arguments and the call sequence: they equal the
\* outputs of a newly constructed instance given the same calls
C1_DeterminismAllVariants ==
    \A c \in Clones : Started(c) => SameAsReplay(c)

\* C1 (amended): on the six generator variants (Halton, Sobol, PaddedSobol,
\* PMJ02BN, Random, Stratified) the outputs after StartPixelSample depend only
\* on the configuration, the arguments and the call sequence, whatever the
\* instance did before
C1_DeterminismGenerators ==
    \A c \in Clones : kind \in Generators /\ Started(c) => SameAsReplay(c)

\* a generator that had already served calls was restarted and has answered
\* MaxCalls calls since
C1_Witness ==
    /\ kind \in {"Random", "Sobol"}
    /\ Started(1) /\ log[1].dirty
    /\ Len(log[1].calls) = MaxCalls
    /\ SameAsReplay(1)

\* every scalar returned to the caller of clone c since StartPixelSample
AllOutputs(c) ==
    UNION { { log[c].outs[i][j] : j \in DOMAIN log[c].outs[i] } : i \in DOMAIN log[c].outs }

\* C2: every scalar returned by Get1D and both components of every pair
\* returned by Get2D lie in [0, 1), on every variant
C2_Range ==
    \A c \in Clones : \A v \in AllOutputs(c) : InUnit(v)

\* the Sobol pixel sample after remap and clamp, and the PMJ02BN and Stratified
\* samples, are among the values returned
C2_Witness ==
    /\ kind \in {"Sobol", "PMJ02BN", "Stratified"}
    /\ Started(1) /\ log[1].args[3] = 0
    /\ log[1].calls = <<"2D", "1D">>
    /\ \A v \in AllOutputs(1) : InUnit(v)

\* the step is a Get call on clone c that the caller's record shows
IsGet(c, name) == log'[c].calls = Append(log[c].calls, name)

\* the call changed nothing of the position except the dimension cursor
PositionKept(c) ==
    /\ smp'[c].pixel = smp[c].pixel
    /\ smp'[c].sampleIndex = smp[c].sampleIndex
    /\ smp'[c].haltonIndex = smp[c].haltonIndex
    /\ smp'[c].sobolIndex = smp[c].sobolIndex

SampledFrom(d, n) ==
    IF kind \in TableKinds /\ d >= TableBound(kind) - (n - 1) THEN 2 ELSE d

C5_NoExhaustion ==
    \A c \in Clones :
        kind \in TableKinds /\ log[c].started =>
           /\ ~smp[c].aborted
           /\ \A i \in DOMAIN log[c].used : 0 <= log[c].used[i] /\ log[c].used[i] < TableBound(kind)
           /\ \A i \in DOMAIN log[c].outs : log[c].outs[i] # <<>>

\* C6: a Get1D or Get2D on an instance on which StartPixelSample was never
\* called ends in an abort and returns no value
C6_GetBeforeStartFails ==
    \A c \in Clones :
        kind \in Generators /\ ~log[c].started /\ log[c].calls # <<>> =>
           smp[c].aborted /\ log[c].outs[Len(log[c].outs)] = <<>>

\* the recorded value at index i, as the caller sees it
Recorded(i) == Rat(conf.u[i + 1], FloatOne)

\* what the last recorded call returned
LastOut(c) == log'[c].outs[Len(log'[c].outs)]

C10_RejectRoundTrip ==
    \A c \in Clones :
        kind = "MLT" /\ log[c].phase = "rejected" =>
           /\ smp[c].currentIteration = log[c].snapIter
           /\ \A i \in DOMAIN log[c].snapX :
                 /\ smp[c].X[i].value = log[c].snapX[i].value
                 /\ smp[c].X[i].lastModificationIteration =
                        log[c].snapX[i].lastModificationIteration

\* the iteration stamps of a Metropolis instance are in order
StampsInOrder(s) ==
    /\ 0 <= s.lastLargeStepIteration
    /\ s.lastLargeStepIteration <= s.currentIteration
    /\ \A i \in DOMAIN s.X :
          /\ s.X[i].modifyBackup <= s.X[i].lastModificationIteration
          /\ s.X[i].lastModificationIteration <= s.currentIteration

\* C20: in every state reached by repeating StartIteration; StartStream, Get1D
\* and Get2D any number of times; one of Accept and Reject, it holds that
\* 0 <= lastLargeStepIteration <= currentIteration and every primary sample
\* in X has modifyBackup <= lastModificationIteration <= currentIteration
C20_IterationStamps ==
    \A c \in Clones :
        kind = "MLT" /\ log[c].inProtocol => StampsInOrder(smp[c])

\* a primary sample whose backup was overwritten by a second request of its
\* index in an iteration that was rejected afterwards: Restore has given it
\* the stamp of the rejected iteration
RestoredToRejected(s, Xi) ==
    Xi.modifyBackup = Xi.lastModificationIteration
        /\ Xi.lastModificationIteration = s.currentIteration + 1

\* the stamps are in order but for the primary samples requested twice in a
\* rejected iteration (the backup overwritten, as in C10)
C20_IterationStampsButRepeats ==
    \A c \in Clones :
        kind = "MLT" /\ log[c].inProtocol =>
           /\ 0 <= smp[c].lastLargeStepIteration
           /\ smp[c].lastLargeStepIteration <= smp[c].currentIteration
           /\ \A i \in DOMAIN smp[c].X :
                 /\ smp[c].X[i].modifyBackup <= smp[c].X[i].lastModificationIteration
                 /\ \/ smp[c].X[i].lastModificationIteration <= smp[c].currentIteration
                    \/ RestoredToRejected(smp[c], smp[c].X[i])

\* a newly constructed instance after StartPixelSample(q, k, d)
StartedAt(q, k, d) ==
    DispatchStart(kind, conf, NewInstance(kind, conf, 0), q, k, d, TRUE)

\* what n successive Get1D calls made from the instance st return
RECURSIVE Get1DValues(_, _)
Get1DValues(st, n) ==
    IF n = 0 THEN <<>>
    ELSE LET o == Get1DOf(st, TRUE) IN <<o.out>> \o Get1DValues(o.st, n - 1)

\* every call since the StartPixelSample of clone c was a Get1D
OnlyGet1D(c) == \A j \in DOMAIN log[c].calls : log[c].calls[j] = "1D"

\* from the second value on, clone c has returned what a new instance started
\* one dimension later returns from its first value on
DiscardsOne(c) ==
    LET a == log[c].args
        later == Get1DValues(StartedAt(a[1], a[2], a[3] + 1), Len(log[c].calls) - 1)
    IN  \A j \in 2 .. Len(log[c].calls) : log[c].outs[j] = later[j - 1]

\* C21 (as stated): in HaltonSampler and SobolSampler, for every pixel, sample
\* index and start dimension d >= 1, at or beyond the table bound too,
\* StartPixelSample(p, k, d); Get1D; Get1D; ... returns from the second value
\* on what StartPixelSample(p, k, d + 1); Get1D; ... returns
C21_StartDimensionConsistent ==
    \A c \in Clones :
        kind \in TableKinds /\ Started(c) /\ OnlyGet1D(c)
            /\ log[c].args[3] >= 1 /\ log[c].args[3] < IntMax =>
                DiscardsOne(c)

\* C21 (amended): the equivalence holds for every start dimension d with
\* 1 <= d < table bound; from a start dimension at or beyond the bound the
\* first Get1D wraps to dimension 2, so the second value comes from dimension
\* 3 while the first value of an instance started at d + 1 comes from
\* dimension 2
C21_StartDimensionConsistentBelowBound ==
    \A c \in Clones :
        kind \in TableKinds /\ Started(c) /\ OnlyGet1D(c) =>
           LET d == log[c].args[3]
           IN  /\ d >= 1 /\ d < TableBound(kind) => DiscardsOne(c)
               /\ d >= TableBound(kind) /\ d < IntMax /\ Len(log[c].calls) = 2 =>
                     /\ log[c].used = <<3>>
                     /\ Get1DOf(StartedAt(log[c].args[1], log[c].args[2], d + 1),
                                TRUE).used = <<2>>

\* a Sobol' instance started on the last table dimension has returned two
\* values: the second one wrapped to dimension 2, as the first value of an
\* instance started at the bound does
C21_Witness ==
    /\ kind = "Sobol"
    /\ Started(1) /\ log[1].args[3] = NSobolDimensions - 1
    /\ log[1].calls = <<"1D", "1D">>
    /\ log[1].used = <<2>>
    /\ DiscardsOne(1)

\* every table dimension the call just made sampled is at least 2
UsedFromTwo(c) == \A i \in DOMAIN log'[c].used : log'[c].used[i] >= 2

\* what C14 says of a Get step of clone c whose cursor is d before the call
WrapsToTwo(c, d) ==
    /\ IsGet(c, "1D") /\ d >= TableBound(kind) =>
          log'[c].used = <<2>> /\ smp'[c].dimension = 3
    /\ IsGet(c, "2D") /\ d >= TableBound(kind) - 1 =>
          log'[c].used = <<2, 3>> /\ smp'[c].dimension = 4
    /\ (IsGet(c, "1D") \/ IsGet(c, "2D")) /\ d >= 2 =>
          smp'[c].dimension >= 2 /\ UsedFromTwo(c)

\* C14: in HaltonSampler and SobolSampler a Get1D/Get2D that would exceed the
\* table bound sets the cursor back to 2 before sampling (it samples dimension
\* 2, or 2 and 3), and from a cursor >= 2 no call samples dimension 0 or 1 or
\* leaves the cursor below 2: after a wrap the cursor stays >= 2 until the next
\* StartPixelSample
C14_WrapToTwo ==
    [][\A c \in Clones :
          kind \in TableKinds => WrapsToTwo(c, smp[c].dimension)]_vars

\* the same, for every cursor below INT_MAX
C14_WrapToTwoBelowIntMax ==
    [][\A c \in Clones :
          kind \in TableKinds /\ smp[c].dimension < IntMax =>
             WrapsToTwo(c, smp[c].dimension)]_vars

\* two successive Get1D calls on the instance st: the values returned, the
\* table dimensions sampled and the cursor left
TwoGet1D(st) ==
    LET a == Get1DOf(st, TRUE)
        b == Get1DOf(a.st, TRUE)
    IN  [out |-> a.out \o b.out, used |-> a.used \o b.used, dimension |-> b.st.dimension]

\* the Get2D step clone c takes returns the pair, and leaves the cursor, of
\* two successive Get1D calls made from the state before the step
LikeTwoGet1D(c) ==
    /\ LastOut(c) = TwoGet1D(smp[c]).out
    /\ smp'[c].dimension = TwoGet1D(smp[c]).dimension

\* C15 (as stated): in HaltonSampler, from every state whose cursor is not 0
\* (the values just below and above the prime-table bound included), one Get2D
\* returns the same pair as two successive Get1D calls made from that state
\* and leaves the same cursor value
C15_Get2DIsTwoGet1D ==
    [][\A c \in Clones :
          kind = "Halton" /\ IsGet(c, "2D") /\ smp[c].dimension # 0 =>
             LikeTwoGet1D(c)]_vars

\* C15 (amended): the equivalence holds from every cursor d with
\* 1 <= d <= PrimeTableSize - 2 or PrimeTableSize <= d < INT_MAX; at cursor
\* PrimeTableSize - 1 Get2D wraps first, samples dimensions 2 and 3 and leaves
\* the cursor at 4, while two Get1D calls sample PrimeTableSize - 1 and 2 and
\* leave it at 3
C15_Get2DIsTwoGet1DOffTheEdge ==
    [][\A c \in Clones :
          kind = "Halton" /\ IsGet(c, "2D") =>
             LET d == smp[c].dimension
             IN  /\ d >= 1 /\ d # PrimeTableSize - 1 /\ d < IntMax => LikeTwoGet1D(c)
                 /\ d = PrimeTableSize - 1 =>
                       /\ log'[c].used = <<2, 3>> /\ smp'[c].dimension = 4
                       /\ TwoGet1D(smp[c]).used = <<PrimeTableSize - 1, 2>>
                       /\ TwoGet1D(smp[c]).dimension = 3]_vars

\* a Get2D started above the prime-table bound returned what two Get1D calls
\* from the same start return: the scrambled dimensions 2 and 3
C15_Witness ==
    /\ kind = "Halton"
    /\ Started(1) /\ log[1].args[3] = PrimeTableSize + 1
    /\ log[1].calls = <<"2D">>
    /\ log[1].outs[1] =
          TwoGet1D(StartedAt(log[1].args[1], log[1].args[2], log[1].args[3])).out
    /\ log[1].used = <<2, 3>>

\* the stream and the position in it that StartPixelSample(q, k, d) selects
\* differ from those clone c was started at
StartsElsewhere(c, q, k, d) == StartedAt(q, k, d).rng # smp[c].rng

\* C16: in RandomSampler the map from (pixel, sampleIndex, dimension) to the
\* stream (p.x + p.y*65536) | (seed << 32) and the position sampleIndex*65536 +
\* dimension is injective: two different triples never start at the same
\* stream position
C16_StreamPositionsUnique ==
    \A c \in Clones :
        kind = "Random" /\ Started(c) /\ log[c].calls = <<>> =>
           \A q \in Pixels, k \in SampleIndices, d \in StartDims :
               <<q, k, d>> # log[c].args => StartsElsewhere(c, q, k, d)

\* a pixel column and a dimension that fit the 16-bit fields of the packing
InField(v) == 0 <= v /\ v < 65536

\* the same, for triples whose pixel column and dimension are below 65536
C16_StreamPositionsUniqueInFields ==
    \A c \in Clones :
        kind = "Random" /\ Started(c) /\ log[c].calls = <<>>
        /\ InField(log[c].args[1][1]) /\ InField(log[c].args[3]) =>
           \A q \in Pixels, k \in SampleIndices, d \in StartDims :
               <<q, k, d>> # log[c].args /\ InField(q[1]) /\ InField(d) =>
                  StartsElsewhere(c, q, k, d)

\* the stratum of 0 .. n-1 a value of [0,1) lies in
StratumOf(v, n) == (Num(v) * n) \div Den(v)

\* the combined stratum x + y * xPixelSamples of the cell a point lies in
CombinedStratumOf(v) ==
    (Num(v[1]) * conf.xPixelSamples) \div Den(v[1])
       + ((Num(v[2]) * conf.yPixelSamples) \div Den(v[2])) * conf.xPixelSamples

\* the instance of clone c, at another sample index
AtSampleIndex(c, k) == [smp[c] EXCEPT !.sampleIndex = k]

\* C17 (as stated): for the same pixel, seed and cursor value the permutation
\* of sample indices Get1D picks its stratum with is keyed differently from the
\* one Get2D picks its combined stratum with: the two permutations differ, at
\* some sample index Get1D's stratum is not Get2D's combined stratum
C17_IndependentPermutations ==
    \A c \in Clones :
        kind = "Stratified" /\ Started(c) =>
           \E k \in SampleIndices :
               StratifiedStratum1D(conf, AtSampleIndex(c, k))
                  # StratifiedStratum2D(conf, AtSampleIndex(c, k))

\* C17 (amended): for the same pixel, seed, sample index and cursor value
\* Get1D and Get2D hash the same key: the stratum a Get1D picks is the
\* combined stratum a Get2D picks from the same state, and with jitter
\* disabled the value Get1D returns lies in the stratum whose number is the
\* combined stratum of the cell Get2D's point lies in
C17_SameStratum ==
    [][\A c \in Clones :
          kind = "Stratified" /\ IsGet(c, "1D") =>
             /\ StratifiedStratum1D(conf, smp[c]) = StratifiedStratum2D(conf, smp[c])
             /\ ~conf.jitter =>
                   StratumOf(LastOut(c)[1], StratifiedSamplesPerPixel(conf))
                      = CombinedStratumOf(Get2DOf(smp[c], TRUE).out)]_vars

\* without jitter, a Get1D returned a value of stratum 1, the combined
\* stratum of the cell Get2D's point lies in from the same start
C17_Witness ==
    /\ kind = "Stratified" /\ ~conf.jitter
    /\ Started(1) /\ log[1].calls = <<"1D">>
    /\ StratumOf(log[1].outs[1][1], StratifiedSamplesPerPixel(conf)) = 1
    /\ CombinedStratumOf(
          Get2DOf(StartedAt(log[1].args[1], log[1].args[2], log[1].args[3]), TRUE).out) = 1

\* what C19 says of a Get2D step of clone c at cursor 0
LookupInBounds(c) ==
    /\ 0 <= PixelSampleIndex(conf, smp[c])
    /\ PixelSampleIndex(conf, smp[c]) < PixelTileSize * PixelTileSize * conf.samplesPerPixel
    /\ PixelSampleIndex(conf, smp[c]) < Len(pixelSamples)
    /\ ~smp'[c].aborted /\ LastOut(c) # <<>>

\* C19: in PMJ02BNSampler::Get2D at cursor 0, for every pixel (negative
\* coordinates included) and every sampleIndex in [0, samplesPerPixel), the
\* index (px + py*pixelTileSize)*samplesPerPixel + sampleIndex with px =
\* pixel.x % pixelTileSize, py = pixel.y % pixelTileSize lies in
\* [0, pixelTileSize*pixelTileSize*samplesPerPixel), the size of pixelSamples
C19_PixelSampleInBounds ==
    [][\A c \in Clones :
          kind = "PMJ02BN" /\ IsGet(c, "2D") /\ smp[c].dimension = 0
          /\ smp[c].sampleIndex \in SampleIndices => LookupInBounds(c)]_vars

\* the same, for pixels without a negative coordinate
C19_PixelSampleInBoundsRightOfZero ==
    [][\A c \in Clones :
          kind = "PMJ02BN" /\ IsGet(c, "2D") /\ smp[c].dimension = 0
          /\ smp[c].sampleIndex \in SampleIndices
          /\ smp[c].pixel[1] >= 0 /\ smp[c].pixel[2] >= 0 => LookupInBounds(c)]_vars

\* the Sobol'-family generators
SobolFamily == {"Sobol", "PaddedSobol"}

\* the pixels a started pixel is compared with
ComparedPixels == (0 .. 1) \X (0 .. 1)

\* the index into the Sobol' sequence a started instance samples: sobolIndex
\* for the SobolSampler, the permuted sample index for the PaddedSobolSampler
SequenceIndex(s) == IF kind = "Sobol" THEN s.sobolIndex ELSE PaddedSobolIndex(conf, s)

\* clone c of a Sobol'-family generator with strategy None has answered
\* exactly one Get1D since StartPixelSample
FirstGet1DNone(c) ==
    /\ kind \in SobolFamily /\ conf.randomizeStrategy = "None"
    /\ Started(c) /\ log[c].calls = <<"1D">>

\* what Get1D returns after StartPixelSample(q, k, d) with the sample index
\* and dimension clone c was started with
Get1DAtPixel(c, q) ==
    Get1DOf(StartedAt(q, log[c].args[2], log[c].args[3]), TRUE).out

\* C12 (as stated): with strategy None, for every two different pixels p # q
\* and every (sampleIndex, dimension), StartPixelSample(p, sampleIndex,
\* dimension); Get1D returns the same value as StartPixelSample(q, sampleIndex,
\* dimension); Get1D
C12_PixelIndependent ==
    \A c \in Clones :
        FirstGet1DNone(c) =>
           \A q \in ComparedPixels \ {log[c].args[1]} :
               Get1DAtPixel(c, q) = log[c].outs[1]

\* C12 (amended): with strategy None the two calls return the same value
\* whenever the two pixels are given the same sequence index; the output
\* depends on the pixel only through that index
C12_SameIndexSameValue ==
    \A c \in Clones :
        FirstGet1DNone(c) =>
           \A q \in ComparedPixels \ {log[c].args[1]} :
               SequenceIndex(StartedAt(q, log[c].args[2], log[c].args[3]))
                  = SequenceIndex(StartedAt(log[c].args[1], log[c].args[2], log[c].args[3]))
               => Get1DAtPixel(c, q) = log[c].outs[1]

\* a PaddedSobolSampler with strategy None returned the value another pixel
\* with the same permuted index returns, and a third pixel returns another
C12_Witness ==
    /\ kind = "PaddedSobol" /\ FirstGet1DNone(1)
    /\ \E q \in ComparedPixels \ {log[1].args[1]} :
          /\ SequenceIndex(StartedAt(q, log[1].args[2], log[1].args[3]))
                = SequenceIndex(StartedAt(log[1].args[1], log[1].args[2], log[1].args[3]))
          /\ Get1DAtPixel(1, q) = log[1].outs[1]
    /\ \E q \in ComparedPixels : Get1DAtPixel(1, q) # log[1].outs[1]

-----------------------------------------------------------------------------
(* Specification: two clones of one generator, each used by its own worker,
   the workers' calls interleaved in every order *)

CloneSetups ==
    { <<"Halton", HaltonConstruct(2, <<4, 3>>, 0)>>,
      <<"PaddedSobol", [samplesPerPixel |-> 2, randomizeStrategy |-> "Owen", optSeed |-> 0]>>,
      <<"PMJ02BN", [samplesPerPixel |-> 2, seed |-> 0]>>,
      <<"Random", [samplesPerPixel |-> 2, seed |-> 0]>>,
      <<"Sobol", [samplesPerPixel |-> 2, scale |-> SobolScale(<<2, 2>>),
                  randomizeStrategy |-> "XOR", optSeed |-> 0]>>,
      <<"Stratified", [xPixelSamples |-> 2, yPixelSamples |-> 1, jitter |-> TRUE,
                       seed |-> 0]>> }

InitClones == InitWith(CloneSetups)

\* worker c renders the pixel (c-1, c-1), one sample index after another
StartClone(c) ==
    \E k \in SampleIndices : StartPixelSample(c, <<c - 1, c - 1>>, k, 0, TRUE)

NextClones ==
    \E c \in Clones :
        \/ StartClone(c)
        \/ Get1D(c, TRUE)
        \/ Get2D(c, TRUE)

SpecClones == InitClones /\ [][NextClones]_vars

\* the shared precomputed tables are as construction left them
TablesAsConstructed ==
    /\ kind = "Halton" => digitPermutations = ComputeRadicalInversePermutations(conf.seed)
    /\ kind = "PMJ02BN" =>
          pixelSamples = ComputePixelSamples(conf.samplesPerPixel, conf.seed)

\* C3: under every interleaving of the workers' calls, each clone is in the
\* state, and each worker has observed the outputs, of that worker running
\* alone; the shared tables are never modified after construction
C3_CloneIndependence ==
    /\ \A c \in Clones : smp[c] = solo[c].st /\ log[c].outs = solo[c].outs
    /\ TablesAsConstructed

\* both workers have made MaxCalls calls on their clones of a generator with
\* shared tables, from different starts, and observed different outputs
C3_Witness ==
    /\ kind \in {"Halton", "PMJ02BN"}
    /\ \A c \in Clones : Started(c) /\ Len(log[c].calls) = MaxCalls
    /\ log[1].args # log[2].args
    /\ log[1].outs # log[2].outs
    /\ \A c \in Clones : log[c].outs = solo[c].outs

-----------------------------------------------------------------------------
(* Specification: the samples of one pixel of a StratifiedSampler, taken one
   sample index after another; seen[k + 1] is the grid cell the first Get2D of
   sample index k fell into *)

StratSetups ==
    { <<"Stratified", [xPixelSamples |-> g[1], yPixelSamples |-> g[2], jitter |-> j,
                       seed |-> sd]>> :
        g \in {<<2, 2>>, <<3, 1>>, <<4, 4>>}, j \in BOOLEAN, sd \in {0, 1} }

InitStrat == InitWith(StratSetups)

\* the grid cell a point of the unit square falls into
Cell(v) ==
    <<(Num(v[1]) * conf.xPixelSamples) \div Den(v[1]),
      (Num(v[2]) * conf.yPixelSamples) \div Den(v[2])>>

\* the next sample index of the pixel is started: the pixel and the start
\* dimension are chosen with the first one and fixed from then on
StratStart(c) ==
    /\ Len(seen) < StratifiedSamplesPerPixel(conf)
    /\ log[c].started => log[c].calls # <<>>
    /\ \E p \in Pixels, d \in {0, 1, 4} :
          /\ log[c].started => p = log[c].args[1] /\ d = log[c].args[3]
          /\ StartCall(c, p, Len(seen), d, TRUE)
    /\ UNCHANGED seen

\* the first Get2D after StartPixelSample
StratGet2D(c) ==
    /\ log[c].started /\ log[c].calls = <<>>
    /\ Get2DCall(c, TRUE)
    /\ seen' = Append(seen, Cell(log'[c].outs[1]))

NextStrat == StratStart(1) \/ StratGet2D(1)

SpecStrat == InitStrat /\ [][NextStrat]_vars

Grid == (0 .. conf.xPixelSamples - 1) \X (0 .. conf.yPixelSamples - 1)

\* C8: for a fixed pixel and start dimension, the first Get2D results of the
\* sample indices k = 0 .. SamplesPerPixel()-1 fall into pairwise distinct
\* grid cells, and once all are taken every cell of the grid is populated
C8_Stratification ==
    /\ \A i, j \in DOMAIN seen : i # j => seen[i] # seen[j]
    /\ \A i \in DOMAIN seen : seen[i] \in Grid
    /\ Len(seen) = StratifiedSamplesPerPixel(conf) => { seen[i] : i \in DOMAIN seen } = Grid

\* the same, for samplers constructed with jitter disabled
C8_StratificationNoJitter == ~conf.jitter => C8_Stratification

\* all 16 samples of a 4 x 4 grid are taken
C8_Witness ==
    /\ conf.xPixelSamples = 4 /\ conf.yPixelSamples = 4 /\ ~conf.jitter
    /\ Len(seen) = 16
    /\ { seen[i] : i \in DOMAIN seen } = Grid

-----------------------------------------------------------------------------
(* Specification: the Halton indices StartPixelSample sets for the sample
   indices of one pixel; seen holds <<sampleIndex, haltonIndex>> of the calls
   that returned *)

IndexSetups ==
    { <<"Halton", HaltonConstruct(spp, res, 0)>> :
        spp \in {4, 70000}, res \in {<<4, 3>>, <<100, 100>>, <<128, 128>>} }

InitIndex == InitWith(IndexSetups)

\* sample indices at both ends of [0, SamplesPerPixel()): 69041 is below and
\* 69043 above INT_MAX / (128 * 243)
IndexSampleIndices == {0, 1, 2, 3, 69041, 69043, 69999} \cap SampleIndices
IndexPixels == {<<0, 0>>, <<1, 0>>, <<3, 2>>, <<127, 127>>, <<-1, -5>>, <<130, 200>>}

\* StartPixelSample for another sample index of the pixel
IndexStart(c) ==
    /\ Len(seen) < MaxCalls
    /\ \E p \in IndexPixels, k \in IndexSampleIndices, ub \in BOOLEAN :
          /\ log[c].started => p = log[c].args[1]
          /\ StartCall(c, p, k, 0, ub)
          /\ seen' = IF smp'[c].aborted THEN seen
                     ELSE Append(seen, <<k, smp'[c].haltonIndex>>)

NextHalton == IndexStart(1)

SpecIndex == InitIndex /\ [][NextHalton]_vars

Stride == conf.baseScales[1] * conf.baseScales[2]

\* C9: the index set by StartPixelSample(p, k, dim) equals index0(p) +
\* k * stride with stride = baseScales[0] * baseScales[1] and 0 <= index0(p) <
\* stride, and two different sample indices of [0, SamplesPerPixel()) never
\* give the same index for a pixel
C9_IndexProgression ==
    /\ ~smp[1].aborted
    /\ log[1].started =>
          LET index0 == HaltonIndex0(conf, log[1].args[1])
          IN  /\ 0 <= index0 /\ index0 < Stride
              /\ \A i \in DOMAIN seen :
                    /\ (seen[i][2] - index0) % Stride = 0
                    /\ (seen[i][2] - index0) \div Stride = seen[i][1]
    /\ \A i, j \in DOMAIN seen : seen[i][1] # seen[j][1] => seen[i][2] # seen[j][2]

\* inv is the inverse of a modulo n: a * inv is congruent to 1, 0 <= inv < n
IsInverse(inv, a, n) == (a * inv) % n = 1 % n /\ 0 <= inv /\ inv < n

\* C13: multInverse[0] is the inverse of baseScales[1] modulo baseScales[0]
\* and multInverse[1] that of baseScales[0] modulo baseScales[1], and for every
\* pixel p (negative coordinates included) and every sample index k the index
\* set by StartPixelSample(p, k, dim) satisfies
\*   haltonIndex mod baseScales[0] = InverseRadicalInverse(p.x mod 128, 2, baseExponents[0])
\*   haltonIndex mod baseScales[1] = InverseRadicalInverse(p.y mod 128, 3, baseExponents[1])
C13_ChineseRemainder ==
    /\ IsInverse(conf.multInverse[1], conf.baseScales[2], conf.baseScales[1])
    /\ IsInverse(conf.multInverse[2], conf.baseScales[1], conf.baseScales[2])
    /\ log[1].started =>
          LET p == log[1].args[1]
          IN  \A i \in DOMAIN seen :
                 /\ seen[i][2] % conf.baseScales[1] =
                        InverseRadicalInverse(Mod(p[1], MaxHaltonResolution), 2,
                                              conf.baseExponents[1])
                 /\ seen[i][2] % conf.baseScales[2] =
                        InverseRadicalInverse(Mod(p[2], MaxHaltonResolution), 3,
                                              conf.baseExponents[2])

\* the same, for the sample indices whose product with the stride fits an int
C13_ChineseRemainderInRange ==
    (\A i \in DOMAIN seen : ~MulOverflows(seen[i][1], Stride)) => C13_ChineseRemainder

\* C22: in HaltonSampler::StartPixelSample the int product sampleIndex *
\* sampleStride equals the exact product for every sampleIndex of
\* [0, SamplesPerPixel()) and every stride up to 128 * 243, so the call
\* returns and haltonIndex is non-negative and equals index0 + sampleIndex *
\* stride exactly
C22_ProductFitsInt ==
    /\ ~smp[1].aborted
    /\ log[1].started =>
          \A i \in DOMAIN seen :
             /\ ~MulOverflows(seen[i][1], Stride)
             /\ seen[i][2] >= 0
             /\ seen[i][2] = HaltonIndex0(conf, log[1].args[1]) + seen[i][1] * Stride

\* the same, for the samplers whose last sample index times the largest
\* stride fits an int: SamplesPerPixel() <= INT_MAX / (128 * 243) + 1
C22_ProductFitsIntFewSamples ==
    conf.samplesPerPixel <= IntMax \div (MaxHaltonResolution * 243) + 1 => C22_ProductFitsInt

-----------------------------------------------------------------------------
(* Specification: the primary-sample indices one Metropolis instance hands
   out, stream by stream; seen holds <<stream, n, index>> for the n-th
   GetNextIndex call after StartStream(stream) *)

\* GetNextIndex calls recorded
MaxIssued == 6

StreamSetups ==
    { <<"MLT", [mutationsPerPixel |-> 2, rngSequenceIndex |-> 0,
                largeStepProbability |-> FloatOne \div 2, streamCount |-> n]>> :
        n \in {1, 2, 3} }

InitStreams == InitWith(StreamSetups)

\* StartStream(index) on clone c
StreamStart(c, index) ==
    /\ smp' = WriteBack(c, MLTStartStream(conf, smp[c], index))
    /\ log' = [log EXCEPT ![c] = [@ EXCEPT !.started = TRUE, !.args = <<index>>,
                                           !.calls = <<>>]]
    /\ UNCHANGED <<kind, conf, digitPermutations, pixelSamples, solo, replay, seen>>

\* GetNextIndex() on clone c; the calls after a StartStream are recorded with
\* the stream they were made on and their number since that StartStream
NextIndexCall(c) ==
    /\ Len(seen) < MaxIssued /\ Len(log[c].calls) < MaxIssued
    /\ smp' = WriteBack(c, AfterNextIndex(smp[c]))
    /\ log' = [log EXCEPT ![c] = [@ EXCEPT !.calls = Append(@, "index")]]
    /\ seen' = IF log[c].started
               THEN Append(seen, <<log[c].args[1], Len(log[c].calls),
                                   GetNextIndex(conf, smp[c])>>)
               ELSE seen
    /\ UNCHANGED <<kind, conf, digitPermutations, pixelSamples, solo, replay>>

NextStreams ==
    \/ \E i \in StreamIndices : StreamStart(1, i)
    \/ NextIndexCall(1)

SpecStreams == InitStreams /\ [][NextStreams]_vars

-----------------------------------------------------------------------------
(* Specification: GetCameraSample on a generator, one request after another;
   seen holds what the call has gathered so far: the filter sample and the
   option it was made under, then the time, then the finished CameraSample.
   The isolated twin of the instance serves the same call made under the
   other value of the disable-pixel-jitter option *)

\* FilterHandle::Sample(u) (pbrt/filters.h): a pixel-relative offset and a
\* weight for a point u of the unit square
FilterSample(u) ==
    [p |-> <<Rat(2 * Num(u[1]) - Den(u[1]), 2 * Den(u[1])),
             Rat(2 * Num(u[2]) - Den(u[2]), 2 * Den(u[2]))>>,
     weight |-> IF 2 * Num(u[2]) < Den(u[2]) THEN 1 ELSE 2]

\* lines 639-643: the filter sample, overridden when pixel jitter is disabled
FilmSample(u, disablePixelJitter) ==
    IF disablePixelJitter THEN [p |-> <<Rat(0, 1), Rat(0, 1)>>, weight |-> 1]
    ELSE FilterSample(u)

\* a film-position request that is not made when pixel jitter is disabled:
\* the claim that the option leaves the requests alone rests on line 639
\* coming before the test of the option
FilmRequestUnlessDisabled(st, disablePixelJitter) ==
    IF disablePixelJitter THEN Outcome(st, <<Rat(1, 2), Rat(1, 2)>>, <<>>)
    ELSE Get2DOf(st, TRUE)

\* line 639: sampler.Get2D(), whatever the option
FilmRequest(st, disablePixelJitter) == Get2DOf(st, TRUE)

\* pPixel + fs.p + Vector2f(0.5, 0.5) (line 646)
FilmPoint(pPixel, fs) ==
    [i \in 1 .. 2 |->
        Rat(2 * Num(fs.p[i]) + (2 * pPixel[i] + 1) * Den(fs.p[i]), 2 * Den(fs.p[i]))]

\* GetCameraSample(sampler, pPixel, filter) (lines 637-651), called right
\* after StartPixelSample: the film request with the test of the option, the
\* time request, the lens request with the assembly of the CameraSample
GetCameraSample(c) ==
    /\ NoneAborted /\ log[c].started
    /\ \/ /\ log[c].calls = <<>>
          /\ \E opt \in BOOLEAN :
               \E o \in {FilmRequest(smp[c], opt)}, so \in {FilmRequest(solo[c].st, ~opt)} :
                  /\ GetStep(c, "2D", o, so,
                             [un \in Indeterminate |-> FilmRequest(replay[c][un].st, opt)])
                  /\ seen' = << [disablePixelJitter |-> opt,
                                 fs |-> IF o.out = <<>> THEN <<>> ELSE FilmSample(o.out, opt)] >>
       \/ /\ log[c].calls = <<"2D">> /\ Len(seen) = 1
          /\ \E o \in {Get1DOf(smp[c], TRUE)}, so \in {Get1DOf(solo[c].st, TRUE)} :
                /\ GetStep(c, "1D", o, so,
                           [un \in Indeterminate |-> Get1DOf(replay[c][un].st, TRUE)])
                /\ seen' = Append(seen, o.out)
       \/ /\ log[c].calls = <<"2D", "1D">> /\ Len(seen) = 2
          /\ \E o \in {Get2DOf(smp[c], TRUE)}, so \in {Get2DOf(solo[c].st, TRUE)} :
                /\ GetStep(c, "2D", o, so,
                           [un \in Indeterminate |-> Get2DOf(replay[c][un].st, TRUE)])
                /\ seen' = Append(seen,
                              [pFilm |-> FilmPoint(log[c].args[1], seen[1].fs),
                               time |-> seen[2][1],
                               pLens |-> o.out,
                               weight |-> seen[1].fs.weight])

\* the StartPixelSample that precedes a camera sample
CameraStart(c) ==
    \E p \in {<<0, 0>>, <<1, 1>>}, k \in SampleIndices, d \in {0, 1, TableBound(kind) - 1} :
        StartPixelSample(c, p, k, d, TRUE)

NextCamera == CameraStart(1) \/ GetCameraSample(1)

SpecCamera == InitClones /\ [][NextCamera]_vars

\* GetCameraSample on clone c has returned
CameraDone(c) == Len(log[c].calls) = 3 /\ Len(seen) = 3

\* C18: GetCameraSample requests exactly Get2D (film position), Get1D (time),
\* Get2D (lens), in that order; the disable-pixel-jitter option changes only the
\* film offset and weight derived from the first Get2D: under either value of
\* the option the same requests are made, they return the same values and the
\* generator ends in the same state
C18_CameraSampleOrder ==
    \A c \in Clones :
        /\ smp[c] = solo[c].st /\ log[c].outs = solo[c].outs
        /\ CameraDone(c) =>
              /\ log[c].calls = <<"2D", "1D", "2D">>
              /\ seen[3].time = log[c].outs[2][1]
              /\ seen[3].pLens = log[c].outs[3]
              /\ seen[3].weight = seen[1].fs.weight
              /\ seen[1].fs = IF seen[1].disablePixelJitter
                              THEN [p |-> <<Rat(0, 1), Rat(0, 1)>>, weight |-> 1]
                              ELSE FilterSample(log[c].outs[1])

\* a camera sample taken with pixel jitter disabled from a generator started
\* at dimension 0: five dimensions were consumed, as with the option off
C18_Witness ==
    /\ kind \in CursorKinds
    /\ CameraDone(1) /\ seen[1].disablePixelJitter
    /\ log[1].args[3] = 0
    /\ smp[1].dimension = 5 /\ solo[1].st.dimension = 5
    /\ seen[3].pFilm = <<Rat(2 * log[1].args[1][1] + 1, 2), Rat(2 * log[1].args[1][2] + 1, 2)>>

====
